---------------------------- MODULE Spec2Model ----------------------------
(***************************************************************************)
(* A model of msocks, a local SOCKS5 front-end that tunnels client traffic *)
(* to a remote relay over a stream-cipher channel.                         *)
(*                                                                         *)
(* Four pieces of the repository are modelled, selected by impl:           *)
(*   "session"  client_session (src/src/session/client_session.cpp): the   *)
(*              inline SOCKS5 negotiation, the connect, the tunnel         *)
(*              handshake and the two forwarding coroutines;               *)
(*   "utility"  detail::do_local_socks5 (src/src/utility/local_socks5.cpp):*)
(*              the standalone negotiation that returns raw bytes;         *)
(*   "pair"     msocks::pair (src/src/utility/socket_pair.hpp): the        *)
(*              read_some / transform / write pump, once per direction;    *)
(*   "socket_pair"  msocks::utility::socket_pair                           *)
(*              (src/include/msocks/utility/socket_pair.hpp): the same     *)
(*              pump run in a coroutine of its own.                        *)
(***************************************************************************)
EXTENDS Integers, Sequences, FiniteSets, TLC

(***************************************************************************)
(* Bounds of the model.                                                    *)
(***************************************************************************)
\* bytes each peer sends while the session forwards
MaxData == 2
\* number of distinct IVs the random pool may produce
NumIVs == 1
\* size of the buffer handed to msocks::pair
BufSize == 2

(***************************************************************************)
(* Program constants.                                                      *)
(***************************************************************************)
SOCKS5_VERSION == 5
AUTH_NO_AUTH == 0
CONN_TCP == 1
ADDR_IPV4 == 1
ADDR_DOMAIN == 3
ADDR_IPV6 == 4
\* iv(8) in the constructor
IvLen == 8
\* uint8_t domain_length
MaxDomainLen == 255
\* uint16_t size
SizeMod == 65536

Dirs == {"l2r", "r2l"}

(***************************************************************************)
(* Wire bytes.  A byte on a wire is [b, k]: b the plain value and k the    *)
(* keystream position it was combined with, -1 when it is untransformed.   *)
(* The cipher is opaque: ProcessString at cursor k turns n bytes into the  *)
(* same bytes tagged k, k+1, ...                                           *)
(***************************************************************************)
Plain(b) == [b |-> b, k |-> -1]

PlainSeq(s) == [i \in 1..Len(s) |-> Plain(s[i])]

ProcessString(s, cursor) == [i \in 1..Len(s) |-> [b |-> s[i], k |-> cursor + i - 1]]

Take(s, n) == SubSeq(s, 1, n)

Drop(s, n) == SubSeq(s, n + 1, Len(s))

IsPrefix(p, s) == Len(p) <= Len(s) /\ Take(s, Len(p)) = p

Reverse(s) == [i \in 1..Len(s) |-> s[Len(s) + 1 - i]]

Min(a, b) == IF a < b THEN a ELSE b

(***************************************************************************)
(* Text conversions: std::to_string, address_v4::to_string,                *)
(* address_v6::to_string (inet_ntop).  Text is a sequence of char codes.   *)
(***************************************************************************)
RECURSIVE to_string(_)
to_string(n) == IF n < 10 THEN <<48 + n>> ELSE to_string(n \div 10) \o <<48 + (n % 10)>>

HexDigit(d) == IF d < 10 THEN 48 + d ELSE 87 + d

RECURSIVE to_hex(_)
to_hex(n) == IF n < 16 THEN <<HexDigit(n)>> ELSE to_hex(n \div 16) \o <<HexDigit(n % 16)>>

\* big_to_native of a 16-bit field copied from the wire
big_to_native16(bytes) == bytes[1] * 256 + bytes[2]

\* big_to_native of a 32-bit field copied from the wire
big_to_native32(bytes) == bytes[1] * 16777216 + bytes[2] * 65536 + bytes[3] * 256 + bytes[4]

\* ip::make_address_v4(uint).to_string()
v4_to_string(u) ==
    to_string(u \div 16777216) \o <<46>> \o to_string((u \div 65536) % 256) \o <<46>>
        \o to_string((u \div 256) % 256) \o <<46>> \o to_string(u % 256)

Words(bytes) == [i \in 1..8 |-> bytes[2 * i - 1] * 256 + bytes[2 * i]]

RECURSIVE ZeroRun(_, _)
ZeroRun(w, i) == IF i > 8 \/ w[i] # 0 THEN 0 ELSE 1 + ZeroRun(w, i + 1)

\* the first longest run of two or more zero words: <<base, len>>, base 0 when none
BestRun(w) ==
    LET starts == {i \in 1..8 : w[i] = 0 /\ (i = 1 \/ w[i - 1] # 0)}
        good == {i \in starts : ZeroRun(w, i) >= 2}
    IN  IF good = {} THEN <<0, 0>>
        ELSE LET b == CHOOSE i \in good :
                          \A j \in good : ZeroRun(w, j) < ZeroRun(w, i)
                                          \/ (ZeroRun(w, j) = ZeroRun(w, i) /\ i <= j)
             IN  <<b, ZeroRun(w, b)>>

RECURSIVE Ntop6(_, _, _, _)
Ntop6(bytes, w, best, i) ==
    IF i > 8 THEN (IF best[1] # 0 /\ best[1] + best[2] = 9 THEN <<58>> ELSE <<>>)
    ELSE IF best[1] # 0 /\ i >= best[1] /\ i < best[1] + best[2]
         THEN (IF i = best[1] THEN <<58>> ELSE <<>>) \o Ntop6(bytes, w, best, i + 1)
    ELSE (IF i # 1 THEN <<58>> ELSE <<>>) \o
         (IF i = 7 /\ best[1] = 1 /\ (best[2] = 6 \/ (best[2] = 5 /\ w[6] = 65535))
          THEN to_string(bytes[13]) \o <<46>> \o to_string(bytes[14]) \o <<46>>
                   \o to_string(bytes[15]) \o <<46>> \o to_string(bytes[16])
          ELSE to_hex(w[i]) \o Ntop6(bytes, w, best, i + 1))

\* ip::make_address_v6(bytes).to_string()
v6_to_string(bytes) == Ntop6(bytes, Words(bytes), BestRun(Words(bytes)), 1)

(***************************************************************************)
(* State.                                                                  *)
(***************************************************************************)
VARIABLES
    impl,       \* which piece of the repository runs
    script,     \* the bytes the client sends during the negotiation
    cut,        \* how many of them arrive before the client's stream ends
    lpos,       \* bytes of script consumed from the local socket
    pc,         \* position of the negotiating coroutine
    fail,       \* where and why the negotiation was aborted
    hdr,        \* the fixed-size header last read: auth_method or request
    addr_port,  \* a_p, the "host:port" text parsed from the request
    result,     \* the raw bytes handed over by do_local_socks5
    iv,         \* session iv: 0 until generated
    frame,      \* the handshake frame built by send_handshake
    keyed,      \* per direction, number of SetKeyWithIV calls
    used,       \* per direction, number of ProcessString calls
    cur,        \* per direction, keystream cursor
    ops,        \* per cipher, the calls made on it and the task that made each
    sock,       \* our two sockets: "init", "open" or "closed"
    peer,       \* the far end of each socket: "open", "eof" or "reset"
    inq,        \* per socket, bytes received and not yet read
    sent,       \* per socket, every byte the peer sent while forwarding
    out,        \* per socket, every byte written to it
    rd,         \* per direction, every byte the pump read
    buf,        \* per direction, the pump's buffer
    pump,       \* per direction, the pump's position
    base,       \* per socket, bytes written to it before the pumps started
    connects,   \* number of connects attempted to the remote relay
    refs        \* the holders of a shared_ptr to the session

vars == <<impl, script, cut, lpos, pc, fail, hdr, addr_port, result, iv, frame,
          keyed, used, cur, ops, sock, peer, inq, sent, out, rd, buf, pump, base, connects, refs>>

negVars == <<script, cut, lpos, hdr, addr_port, result>>

cipherVars == <<iv, frame, keyed, used, cur, ops>>

pumpVars == <<rd, buf, pump, base>>


(***************************************************************************)
(* The inputs: what a client may send while the session negotiates.        *)
(***************************************************************************)
Greeting(ver, methods) == <<ver, Len(methods)>> \o methods

Request(ver, cmd, atyp, body) == <<ver, cmd, 0, atyp>> \o body

DomainBody(n, port) == <<n>> \o [i \in 1..n |-> 97 + (i % 3)] \o port

MethodLists == {<<0>>, <<2>>, <<2, 0>>, <<>>}

\* <<address type, address and port bytes>>
Bodies ==
    { <<ADDR_IPV4, <<127, 0, 0, 1, 0, 80>>>>,
      <<ADDR_IPV4, <<10, 200, 3, 44, 31, 144>>>>,
      <<ADDR_IPV6, <<0, 0, 0, 0, 0, 0, 0, 0, 0, 0, 0, 0, 0, 0, 0, 1, 1, 187>>>>,
      <<ADDR_IPV6, <<32, 1, 13, 184, 0, 0, 0, 0, 0, 0, 255, 0, 0, 66, 131, 41, 255, 255>>>>,
      <<ADDR_DOMAIN, DomainBody(0, <<0, 0>>)>>,
      <<ADDR_DOMAIN, DomainBody(3, <<31, 144>>)>>,
      <<ADDR_DOMAIN, DomainBody(MaxDomainLen, <<255, 255>>)>>,
      <<5, <<1, 2>>>> }

BaseGreeting == Greeting(SOCKS5_VERSION, <<AUTH_NO_AUTH>>)

BaseRequest == Request(SOCKS5_VERSION, CONN_TCP, ADDR_IPV4, <<127, 0, 0, 1, 0, 80>>)

Scripts ==
    { Greeting(v, m) \o BaseRequest : v \in {4, 5}, m \in MethodLists }
    \cup { BaseGreeting \o Request(v, c, b[1], b[2]) : v \in {4, 5}, c \in {1, 2, 3}, b \in Bodies }

IvBytes(id) == [i \in 1..IvLen |-> id]

(***************************************************************************)
(* Init: the state after the constructor (session, utility), or after the  *)
(* caller has set up a forwarding pair (pair).                             *)
(***************************************************************************)
NoFail == [at |-> "none", why |-> "none"]

\* a call on a cipher object, made by a task
Call(op, by) == [op |-> op, by |-> by]

InitCommon ==
    /\ lpos = 0
    /\ fail = NoFail
    /\ hdr = <<>>
    /\ addr_port = <<>>
    /\ result = <<>>
    /\ iv = 0
    /\ frame = <<>>
    /\ used = [d \in Dirs |-> 0]
    /\ cur = [d \in Dirs |-> 0]
    /\ peer = [local |-> "open", remote |-> "open"]
    /\ inq = [local |-> <<>>, remote |-> <<>>]
    /\ sent = [local |-> <<>>, remote |-> <<>>]
    /\ out = [local |-> <<>>, remote |-> <<>>]
    /\ rd = [d \in Dirs |-> <<>>]
    /\ buf = [d \in Dirs |-> <<>>]
    /\ base = [local |-> 0, remote |-> 0]
    /\ connects = 0

InitNegotiation ==
    /\ impl \in {"session", "utility"}
    /\ script \in Scripts
    /\ cut \in 0..Len(script)
    /\ pc = "auth_head"
    /\ keyed = [d \in Dirs |-> 0]
    /\ ops = [d \in Dirs |-> <<>>]
    /\ sock = [local |-> "open", remote |-> "init"]
    /\ pump = [d \in Dirs |-> "none"]
    /\ refs = {"caller"}

InitPair ==
    /\ impl \in {"pair", "socket_pair"}
    /\ script = <<>>
    /\ cut = 0
    /\ pc = "forwarding"
    /\ keyed = [d \in Dirs |-> 1]
    /\ ops = [d \in Dirs |-> <<Call("SetKeyWithIV", "caller")>>]
    /\ sock = [local |-> "open", remote |-> "open"]
    /\ pump = [d \in Dirs |-> "read"]
    /\ refs = Dirs

Init == InitCommon /\ (InitNegotiation \/ InitPair)

(***************************************************************************)
(* Socket primitives.                                                      *)
(***************************************************************************)
\* async_read(local, ..., transfer_exactly(n)) completes without error
CanRead(n) == n = 0 \/ (sock.local = "open" /\ peer.local # "reset" /\ lpos + n <= cut)

\* async_write(s, ...) completes without error
CanWrite(s) == sock[s] = "open" /\ peer[s] # "reset"

Peek(n) == SubSeq(script, lpos + 1, lpos + n)

\* Abort with start going on to the connect when do_local_socks5 returned false
MutAbortContinues(why) ==
    /\ pc' = IF why \in {"auth_method", "version", "command", "addrtype"} THEN "connect"
             ELSE "aborted"
    /\ fail' = [at |-> pc, why |-> why]

\* the coroutine leaves the negotiation: return false, or a system_error
Abort(why) == pc' = "aborted" /\ fail' = [at |-> pc, why |-> why]

\* ~client_session: the destructors of local and remote close what is open
Destroyed(socks) == [x \in DOMAIN socks |-> IF socks[x] = "open" THEN "closed" ELSE socks[x]]

\* holder h drops its shared_ptr; the last one to go destroys the session
ReleaseRef(h, socks) ==
    /\ refs' = refs \ {h}
    /\ sock' = IF refs \ {h} = {} THEN Destroyed(socks) ELSE socks

(***************************************************************************)
(* client_session::do_socks5_auth                                          *)
(***************************************************************************)
find_auth(methods_buf) == \E i \in 1..Len(methods_buf) : methods_buf[i] = AUTH_NO_AUTH

AuthReadHead ==
    /\ impl = "session" /\ pc = "auth_head"
    /\ IF CanRead(2)
       THEN /\ hdr' = Peek(2)
            /\ lpos' = lpos + 2
            /\ pc' = "auth_methods"
            /\ fail' = fail
       ELSE /\ Abort("transport")
            /\ UNCHANGED <<hdr, lpos>>
    /\ UNCHANGED <<impl, refs, script, cut, addr_port, result, cipherVars, sock, peer, inq,
                   sent, out, pumpVars, connects>>

AuthReadMethods ==
    /\ impl = "session" /\ pc = "auth_methods"
    /\ IF CanRead(hdr[2])
       THEN /\ lpos' = lpos + hdr[2]
            /\ IF find_auth(Peek(hdr[2]))
               THEN pc' = "auth_reply" /\ fail' = fail
               ELSE Abort("auth_method")
       ELSE /\ Abort("transport")
            /\ lpos' = lpos
    /\ UNCHANGED <<impl, refs, script, cut, hdr, addr_port, result, cipherVars, sock, peer, inq,
                   sent, out, pumpVars, connects>>

AuthReply == PlainSeq(<<SOCKS5_VERSION, AUTH_NO_AUTH>>)

AuthWriteReply ==
    /\ impl = "session" /\ pc = "auth_reply"
    /\ IF CanWrite("local")
       THEN /\ out' = [out EXCEPT !.local = @ \o AuthReply]
            /\ pc' = "req_head"
            /\ fail' = fail
       ELSE /\ Abort("transport")
            /\ out' = out
    /\ UNCHANGED <<impl, refs, negVars, cipherVars, sock, peer, inq, sent, pumpVars, connects>>

do_socks5_auth == AuthReadHead \/ AuthReadMethods \/ AuthWriteReply

(***************************************************************************)
(* client_session::do_get_proxy_addr                                       *)
(***************************************************************************)
\* a_p of the IPv4 branch
ParseV4(ap_buf) ==
    v4_to_string(big_to_native32(Take(ap_buf, 4))) \o <<58>>
        \o to_string(big_to_native16(Drop(ap_buf, 4)))

\* a_p of the IPv6 branch
ParseV6(ap_buf) ==
    v6_to_string(Reverse(Take(ap_buf, 16))) \o <<58>>
        \o to_string(big_to_native16(Drop(ap_buf, 16)))

\* a_p of the domain branch
ParseDomain(domain_length, ap_buf) ==
    Take(ap_buf, domain_length) \o <<58>>
        \o to_string(big_to_native16(Drop(ap_buf, domain_length)))

\* ReqReadHead without the switch on request.cmd
MutReqReadHeadAnyCmd ==
    /\ impl = "session" /\ pc = "req_head"
    /\ IF CanRead(4)
       THEN /\ hdr' = Peek(4)
            /\ lpos' = lpos + 4
            /\ LET request == Peek(4)
               IN  IF request[1] # SOCKS5_VERSION THEN Abort("version")
                   ELSE IF request[4] = ADDR_IPV4 THEN pc' = "req_v4" /\ fail' = fail
                   ELSE IF request[4] = ADDR_IPV6 THEN pc' = "req_v6" /\ fail' = fail
                   ELSE IF request[4] = ADDR_DOMAIN THEN pc' = "req_dlen" /\ fail' = fail
                   ELSE Abort("addrtype")
       ELSE /\ Abort("transport")
            /\ UNCHANGED <<hdr, lpos>>
    /\ UNCHANGED <<impl, refs, script, cut, addr_port, result, cipherVars, sock, peer, inq,
                   sent, out, pumpVars, connects>>

ReqReadHead ==
    /\ impl = "session" /\ pc = "req_head"
    /\ IF CanRead(4)
       THEN /\ hdr' = Peek(4)
            /\ lpos' = lpos + 4
            /\ LET request == Peek(4)
               IN  IF request[1] # SOCKS5_VERSION THEN Abort("version")
                   ELSE IF request[2] # CONN_TCP THEN Abort("command")
                   ELSE IF request[4] = ADDR_IPV4 THEN pc' = "req_v4" /\ fail' = fail
                   ELSE IF request[4] = ADDR_IPV6 THEN pc' = "req_v6" /\ fail' = fail
                   ELSE IF request[4] = ADDR_DOMAIN THEN pc' = "req_dlen" /\ fail' = fail
                   ELSE Abort("addrtype")
       ELSE /\ Abort("transport")
            /\ UNCHANGED <<hdr, lpos>>
    /\ UNCHANGED <<impl, refs, script, cut, addr_port, result, cipherVars, sock, peer, inq,
                   sent, out, pumpVars, connects>>

\* the read of a fixed-length address and port, then the conversion to text
ReqReadAddr(at, n, a_p) ==
    /\ impl = "session" /\ pc = at
    /\ IF CanRead(n)
       THEN /\ addr_port' = a_p
            /\ lpos' = lpos + n
            /\ pc' = "req_reply"
            /\ fail' = fail
       ELSE /\ Abort("transport")
            /\ UNCHANGED <<addr_port, lpos>>
    /\ UNCHANGED <<impl, refs, script, cut, hdr, result, cipherVars, sock, peer, inq,
                   sent, out, pumpVars, connects>>

ReqReadV4 == ReqReadAddr("req_v4", 32 \div 8 + 2, ParseV4(Peek(32 \div 8 + 2)))

ReqReadV6 == ReqReadAddr("req_v6", 128 \div 8 + 2, ParseV6(Peek(128 \div 8 + 2)))

ReqReadDomainLen ==
    /\ impl = "session" /\ pc = "req_dlen"
    /\ IF CanRead(1)
       THEN /\ hdr' = Peek(1)
            /\ lpos' = lpos + 1
            /\ pc' = "req_domain"
            /\ fail' = fail
       ELSE /\ Abort("transport")
            /\ UNCHANGED <<hdr, lpos>>
    /\ UNCHANGED <<impl, refs, script, cut, addr_port, result, cipherVars, sock, peer, inq,
                   sent, out, pumpVars, connects>>

\* ReqReadDomain with a short read's error ignored: a_p is built from what arrived
MutReqReadDomainShort ==
    LET domain_length == hdr[1]
        n == Min(domain_length + 2, cut - lpos)
    IN  /\ impl = "session" /\ pc = "req_domain"
        /\ addr_port' = Take(Peek(n), Min(domain_length, n)) \o <<58>> \o to_string(0)
        /\ lpos' = lpos + n
        /\ pc' = "req_reply"
        /\ fail' = fail
        /\ UNCHANGED <<impl, refs, script, cut, hdr, result, cipherVars, sock, peer, inq,
                       sent, out, pumpVars, connects>>

ReqReadDomain ==
    LET domain_length == hdr[1]
        n == domain_length + 2
    IN  /\ impl = "session" /\ pc = "req_domain"
        /\ IF CanRead(n)
           THEN /\ addr_port' = ParseDomain(domain_length, Peek(n))
                /\ lpos' = lpos + n
                /\ pc' = "req_reply"
                /\ fail' = fail
           ELSE /\ Abort("transport")
                /\ UNCHANGED <<addr_port, lpos>>
        /\ UNCHANGED <<impl, refs, script, cut, hdr, result, cipherVars, sock, peer, inq,
                       sent, out, pumpVars, connects>>

SuccessReply == PlainSeq(<<SOCKS5_VERSION, 0, 0, ADDR_IPV4, 0, 0, 0, 0, 0, 0>>)

\* ReqWriteReply with the reply left for after the connect
MutReqWriteReplyDeferred ==
    /\ impl = "session" /\ pc = "req_reply"
    /\ pc' = "connect"
    /\ UNCHANGED <<impl, refs, negVars, fail, out, cipherVars, sock, peer, inq, sent, pumpVars,
                   connects>>

ReqWriteReply ==
    /\ impl = "session" /\ pc = "req_reply"
    /\ IF CanWrite("local")
       THEN /\ out' = [out EXCEPT !.local = @ \o SuccessReply]
            /\ pc' = "connect"
            /\ fail' = fail
       ELSE /\ Abort("transport")
            /\ out' = out
    /\ UNCHANGED <<impl, refs, negVars, cipherVars, sock, peer, inq, sent, pumpVars, connects>>

do_get_proxy_addr ==
    \/ ReqReadHead
    \/ ReqReadV4
    \/ ReqReadV6
    \/ ReqReadDomainLen
    \/ ReqReadDomain
    \/ ReqWriteReply

do_local_socks5 == do_socks5_auth \/ do_get_proxy_addr

(***************************************************************************)
(* client_session::send_handshake and client_session::start                *)
(***************************************************************************)
\* FrameSize with size declared uint8_t
MutFrameSizeNarrow(a_p) == (IvLen + Len(a_p)) % 256

\* uint16_t size = iv.size() + addr_port.size()
FrameSize(a_p) == (IvLen + Len(a_p)) % SizeMod

\* the buffer sequence: &size (host order), the iv, the encrypted address
BuildFrame(id, a_p) ==
    PlainSeq(<<FrameSize(a_p) % 256, FrameSize(a_p) \div 256>>)
        \o PlainSeq(IvBytes(id)) \o ProcessString(a_p, 0)

\* HandshakeCalls with the address encrypted before encrypt is keyed
MutHandshakeCallsTransformFirst ==
    [l2r |-> ops.l2r \o <<Call("ProcessString", "start"), Call("SetKeyWithIV", "start")>>,
     r2l |-> ops.r2l \o <<Call("SetKeyWithIV", "start")>>]

\* HandshakeCalls with the address put through decrypt instead of encrypt
MutHandshakeCallsWrongCipher ==
    [l2r |-> ops.l2r \o <<Call("SetKeyWithIV", "start")>>,
     r2l |-> ops.r2l \o <<Call("SetKeyWithIV", "start"), Call("ProcessString", "start")>>]

\* the calls send_handshake makes on encrypt and decrypt, in order
HandshakeCalls ==
    [l2r |-> ops.l2r \o <<Call("SetKeyWithIV", "start"), Call("ProcessString", "start")>>,
     r2l |-> ops.r2l \o <<Call("SetKeyWithIV", "start")>>]

\* Connect with the connect's error ignored
MutConnectIgnoresFailure ==
    /\ impl = "session" /\ pc = "connect"
    /\ connects' = connects + 1
    /\ \E ok \in BOOLEAN : sock' = [sock EXCEPT !.remote = IF ok THEN "open" ELSE @]
    /\ \E id \in 1..NumIVs :
          /\ iv' = id
          /\ frame' = BuildFrame(id, addr_port)
    /\ keyed' = [d \in Dirs |-> keyed[d] + 1]
    /\ used' = [used EXCEPT !.l2r = @ + 1]
    /\ cur' = [l2r |-> Len(addr_port), r2l |-> 0]
    /\ ops' = HandshakeCalls
    /\ pc' = "hs_write"
    /\ fail' = fail
    /\ UNCHANGED <<impl, refs, negVars, peer, inq, sent, out, pumpVars>>

\* remote.async_connect completes; on success send_handshake runs up to its write
Connect ==
    /\ impl = "session" /\ pc = "connect"
    /\ connects' = connects + 1
    /\ \/ /\ sock' = [sock EXCEPT !.remote = "open"]
          /\ \E id \in 1..NumIVs :
                /\ iv' = id
                /\ frame' = BuildFrame(id, addr_port)
          /\ keyed' = [d \in Dirs |-> keyed[d] + 1]
          /\ used' = [used EXCEPT !.l2r = @ + 1]
          /\ cur' = [l2r |-> Len(addr_port), r2l |-> 0]
          /\ ops' = HandshakeCalls
          /\ pc' = "hs_write"
          /\ fail' = fail
       \/ /\ Abort("connect")
          /\ UNCHANGED <<sock, cipherVars>>
    /\ UNCHANGED <<impl, refs, negVars, peer, inq, sent, out, pumpVars>>

\* HandshakeWrite with the catch block falling through to the spawns
MutHandshakeWriteFallsThrough ==
    /\ impl = "session" /\ pc = "hs_write"
    /\ IF CanWrite("remote")
       THEN /\ out' = [out EXCEPT !.remote = @ \o frame]
            /\ pc' = "forwarding"
            /\ fail' = fail
       ELSE /\ out' = out
            /\ Abort("transport")
    /\ pump' = [d \in Dirs |-> "read"]
    /\ refs' = refs \cup Dirs
    /\ base' = [local |-> Len(out.local), remote |-> Len(out'.remote)]
    /\ UNCHANGED <<impl, negVars, cipherVars, sock, peer, inq, sent, rd, buf, connects>>

\* HandshakeWrite with the spawned lambdas capturing this alone, without p
MutHandshakeWriteNoSelfHandle ==
    /\ impl = "session" /\ pc = "hs_write"
    /\ IF CanWrite("remote")
       THEN /\ out' = [out EXCEPT !.remote = @ \o frame]
            /\ pc' = "forwarding"
            /\ fail' = fail
            /\ pump' = [d \in Dirs |-> "read"]
            /\ base' = [local |-> Len(out.local), remote |-> Len(out.remote) + Len(frame)]
       ELSE /\ \E n \in 0..(Len(frame) - 1) :
                    out' = [out EXCEPT !.remote = @ \o Take(frame, IF sock.remote = "open" THEN n ELSE 0)]
            /\ Abort("transport")
            /\ UNCHANGED <<pump, base>>
    /\ UNCHANGED <<impl, refs, negVars, cipherVars, sock, peer, inq, sent, rd, buf, connects>>

\* async_write(remote, sequence, transfer_all()) completes; then the two spawns
HandshakeWrite ==
    /\ impl = "session" /\ pc = "hs_write"
    /\ IF CanWrite("remote")
       THEN /\ out' = [out EXCEPT !.remote = @ \o frame]
            /\ pc' = "forwarding"
            /\ fail' = fail
            /\ pump' = [d \in Dirs |-> "read"]
            /\ refs' = refs \cup Dirs
            /\ base' = [local |-> Len(out.local), remote |-> Len(out.remote) + Len(frame)]
       ELSE /\ \E n \in 0..(Len(frame) - 1) :
                    out' = [out EXCEPT !.remote = @ \o Take(frame, IF sock.remote = "open" THEN n ELSE 0)]
            /\ Abort("transport")
            /\ UNCHANGED <<pump, base, refs>>
    /\ UNCHANGED <<impl, negVars, cipherVars, sock, peer, inq, sent, rd, buf, connects>>

send_handshake == HandshakeWrite

start == do_local_socks5 \/ Connect \/ send_handshake

(***************************************************************************)
(* client_session::do_forward_local_to_remote / do_forward_remote_to_local *)
(* async_read(src, dynamic_buffer(buf), yield) has the default completion  *)
(* condition transfer_all: it keeps reading into buf and completes only    *)
(* with an error, which yield turns into a system_error.                   *)
(***************************************************************************)
Src(d) == IF d = "l2r" THEN "local" ELSE "remote"

Dst(d) == IF d = "l2r" THEN "remote" ELSE "local"

\* a read on socket s fails now
ReadFails(s) == sock[s] # "open" \/ peer[s] = "reset" \/ (peer[s] = "eof" /\ inq[s] = <<>>)

\* one read_some inside the composed async_read
ForwardRead(d) ==
    /\ impl = "session" /\ pump[d] = "read"
    /\ ~ReadFails(Src(d))
    /\ \E n \in 1..Len(inq[Src(d)]) :
          /\ buf' = [buf EXCEPT ![d] = @ \o Take(inq[Src(d)], n)]
          /\ rd' = [rd EXCEPT ![d] = @ \o Take(inq[Src(d)], n)]
          /\ inq' = [inq EXCEPT ![Src(d)] = Drop(@, n)]
    /\ UNCHANGED <<impl, refs, negVars, pc, fail, cipherVars, sock, peer, sent, out, pump, base,
                   connects>>

\* ForwardCatch without remote.close()
MutCatchClosesLocalOnly(d) ==
    /\ impl = "session" /\ pump[d] = "read"
    /\ ReadFails(Src(d))
    /\ ReleaseRef(d, [sock EXCEPT !.local = "closed"])
    /\ pump' = [pump EXCEPT ![d] = "done"]
    /\ UNCHANGED <<impl, negVars, pc, fail, cipherVars, peer, inq, sent, out, rd, buf, base,
                   connects>>

\* ForwardCatch closing only the socket its pump reads from
MutCatchClosesSource(d) ==
    /\ impl = "session" /\ pump[d] = "read"
    /\ ReadFails(Src(d))
    /\ ReleaseRef(d, [sock EXCEPT ![Src(d)] = "closed"])
    /\ pump' = [pump EXCEPT ![d] = "done"]
    /\ UNCHANGED <<impl, negVars, pc, fail, cipherVars, peer, inq, sent, out, rd, buf, base,
                   connects>>

\* the catch block: local.close(); remote.close()
ForwardCatch(d) ==
    /\ impl = "session" /\ pump[d] = "read"
    /\ ReadFails(Src(d))
    /\ ReleaseRef(d, [local |-> "closed", remote |-> "closed"])
    /\ pump' = [pump EXCEPT ![d] = "done"]
    /\ UNCHANGED <<impl, negVars, pc, fail, cipherVars, peer, inq, sent, out, rd, buf, base,
                   connects>>

do_forward_local_to_remote == ForwardRead("l2r") \/ ForwardCatch("l2r")

do_forward_remote_to_local == ForwardRead("r2l") \/ ForwardCatch("r2l")

(***************************************************************************)
(* detail::do_local_socks5 (the standalone negotiation)                    *)
(***************************************************************************)
\* catch: ec = e.code(); then post(strand, bind(handler, ec, result))
Post(why) == pc' = "posted" /\ fail' = IF why = "none" THEN fail ELSE [at |-> pc, why |-> why]

UReadHead ==
    /\ impl = "utility" /\ pc = "auth_head"
    /\ IF CanRead(2)
       THEN /\ hdr' = Peek(2)
            /\ lpos' = lpos + 2
            /\ pc' = "auth_methods"
            /\ fail' = fail
       ELSE /\ Post("transport")
            /\ UNCHANGED <<hdr, lpos>>
    /\ UNCHANGED <<impl, refs, script, cut, addr_port, result, cipherVars, sock, peer, inq,
                   sent, out, pumpVars, connects>>

UReadMethods ==
    /\ impl = "utility" /\ pc = "auth_methods"
    /\ IF CanRead(hdr[2])
       THEN /\ lpos' = lpos + hdr[2]
            /\ pc' = "auth_reply"
            /\ fail' = fail
       ELSE /\ Post("transport")
            /\ lpos' = lpos
    /\ UNCHANGED <<impl, refs, script, cut, hdr, addr_port, result, cipherVars, sock, peer, inq,
                   sent, out, pumpVars, connects>>

UWriteAuthReply ==
    /\ impl = "utility" /\ pc = "auth_reply"
    /\ IF CanWrite("local")
       THEN /\ out' = [out EXCEPT !.local = @ \o AuthReply]
            /\ pc' = "req_head"
            /\ fail' = fail
       ELSE /\ Post("transport")
            /\ out' = out
    /\ UNCHANGED <<impl, refs, negVars, cipherVars, sock, peer, inq, sent, pumpVars, connects>>

UReadRequest ==
    /\ impl = "utility" /\ pc = "req_head"
    /\ IF CanRead(4)
       THEN /\ hdr' = Peek(4)
            /\ lpos' = lpos + 4
            /\ LET request == Peek(4)
               IN  IF request[2] # CONN_TCP
                   THEN Post("command") /\ result' = result
                   ELSE /\ result' = result \o <<request[4]>>
                        /\ IF request[4] = ADDR_IPV4 THEN pc' = "req_v4" /\ fail' = fail
                           ELSE IF request[4] = ADDR_IPV6 THEN pc' = "req_v6" /\ fail' = fail
                           ELSE IF request[4] = ADDR_DOMAIN THEN pc' = "req_dlen" /\ fail' = fail
                           ELSE Post("addrtype")
       ELSE /\ Post("transport")
            /\ UNCHANGED <<hdr, lpos, result>>
    /\ UNCHANGED <<impl, refs, script, cut, addr_port, cipherVars, sock, peer, inq,
                   sent, out, pumpVars, connects>>

\* async_read into temp, then the copy of temp's first n bytes into result
UReadAddr(at, n) ==
    /\ impl = "utility" /\ pc = at
    /\ IF CanRead(n)
       THEN /\ result' = result \o Peek(n)
            /\ lpos' = lpos + n
            /\ pc' = "req_reply"
            /\ fail' = fail
       ELSE /\ Post("transport")
            /\ UNCHANGED <<result, lpos>>
    /\ UNCHANGED <<impl, refs, script, cut, hdr, addr_port, cipherVars, sock, peer, inq,
                   sent, out, pumpVars, connects>>

UReadV4 == UReadAddr("req_v4", 32 \div 8 + 2)

UReadV6 == UReadAddr("req_v6", 128 \div 8 + 2)

UReadDomainLen ==
    /\ impl = "utility" /\ pc = "req_dlen"
    /\ IF CanRead(1)
       THEN /\ hdr' = Peek(1)
            /\ result' = result \o Peek(1)
            /\ lpos' = lpos + 1
            /\ pc' = "req_domain"
            /\ fail' = fail
       ELSE /\ Post("transport")
            /\ UNCHANGED <<hdr, result, lpos>>
    /\ UNCHANGED <<impl, refs, script, cut, addr_port, cipherVars, sock, peer, inq,
                   sent, out, pumpVars, connects>>

UReadDomain ==
    /\ impl = "utility" /\ pc = "req_domain"
    /\ IF CanRead(hdr[1] + 2)
       THEN /\ result' = result \o Peek(hdr[1] + 2)
            /\ lpos' = lpos + hdr[1] + 2
            /\ pc' = "req_reply"
            /\ fail' = fail
       ELSE /\ Post("transport")
            /\ UNCHANGED <<result, lpos>>
    /\ UNCHANGED <<impl, refs, script, cut, hdr, addr_port, cipherVars, sock, peer, inq,
                   sent, out, pumpVars, connects>>

UWriteReply ==
    /\ impl = "utility" /\ pc = "req_reply"
    /\ IF CanWrite("local")
       THEN /\ out' = [out EXCEPT !.local = @ \o SuccessReply]
            /\ Post("none")
       ELSE /\ Post("transport")
            /\ out' = out
    /\ UNCHANGED <<impl, refs, negVars, cipherVars, sock, peer, inq, sent, pumpVars, connects>>

utility_do_local_socks5 ==
    \/ UReadHead
    \/ UReadMethods
    \/ UWriteAuthReply
    \/ UReadRequest
    \/ UReadV4
    \/ UReadV6
    \/ UReadDomainLen
    \/ UReadDomain
    \/ UWriteReply

(***************************************************************************)
(* msocks::pair                                                            *)
(***************************************************************************)
\* PairRead with the transform restarting the keystream on every chunk
MutPairReadRestartsKeystream(d) ==
    /\ impl = "pair" /\ pump[d] = "read"
    /\ ~ReadFails(Src(d))
    /\ \E n_read \in 1..Min(Len(inq[Src(d)]), BufSize) :
          /\ rd' = [rd EXCEPT ![d] = @ \o Take(inq[Src(d)], n_read)]
          /\ buf' = [buf EXCEPT ![d] = ProcessString(Take(inq[Src(d)], n_read), 0)]
          /\ cur' = [cur EXCEPT ![d] = @ + n_read]
          /\ inq' = [inq EXCEPT ![Src(d)] = Drop(@, n_read)]
    /\ used' = [used EXCEPT ![d] = @ + 1]
    /\ ops' = [ops EXCEPT ![d] = Append(@, Call("ProcessString", d))]
    /\ pump' = [pump EXCEPT ![d] = "write"]
    /\ UNCHANGED <<impl, refs, negVars, pc, fail, iv, frame, keyed, sock, peer, sent, out, base,
                   connects>>

\* src.async_read_some succeeds; transform; async_write starts
PairRead(d) ==
    /\ impl = "pair" /\ pump[d] = "read"
    /\ ~ReadFails(Src(d))
    /\ \E n_read \in 1..Min(Len(inq[Src(d)]), BufSize) :
          /\ rd' = [rd EXCEPT ![d] = @ \o Take(inq[Src(d)], n_read)]
          /\ buf' = [buf EXCEPT ![d] = ProcessString(Take(inq[Src(d)], n_read), cur[d])]
          /\ cur' = [cur EXCEPT ![d] = @ + n_read]
          /\ inq' = [inq EXCEPT ![Src(d)] = Drop(@, n_read)]
    /\ used' = [used EXCEPT ![d] = @ + 1]
    /\ ops' = [ops EXCEPT ![d] = Append(@, Call("ProcessString", d))]
    /\ pump' = [pump EXCEPT ![d] = "write"]
    /\ UNCHANGED <<impl, refs, negVars, pc, fail, iv, frame, keyed, sock, peer, sent, out, base,
                   connects>>

\* PairFail without the test of ec after the write: the loop goes on to the next read
MutPairFailContinues(d) ==
    /\ impl = "pair"
    /\ \/ /\ pump[d] = "read" /\ ReadFails(Src(d))
          /\ pump' = [pump EXCEPT ![d] = "returned"]
       \/ /\ pump[d] = "write" /\ ~CanWrite(Dst(d))
          /\ pump' = [pump EXCEPT ![d] = "read"]
    /\ UNCHANGED <<impl, refs, negVars, pc, fail, cipherVars, sock, peer, inq, sent, out, rd, buf,
                   base, connects>>

\* if (ec) goto out, after the read or after the write
PairFail(d) ==
    /\ impl = "pair"
    /\ \/ pump[d] = "read" /\ ReadFails(Src(d))
       \/ pump[d] = "write" /\ ~CanWrite(Dst(d))
    /\ pump' = [pump EXCEPT ![d] = "returned"]
    /\ UNCHANGED <<impl, refs, negVars, pc, fail, cipherVars, sock, peer, inq, sent, out, rd, buf,
                   base, connects>>

\* PairWrite resending the whole chunk after a short write
MutPairWriteResends(d) ==
    /\ impl = "pair" /\ pump[d] = "write"
    /\ CanWrite(Dst(d))
    /\ \E n \in 1..Len(buf[d]) :
          /\ out' = [out EXCEPT ![Dst(d)] = @ \o Take(buf[d], n)]
          /\ buf' = [buf EXCEPT ![d] = IF n = Len(@) THEN <<>> ELSE @]
          /\ pump' = [pump EXCEPT ![d] = IF n = Len(buf[d]) THEN "read" ELSE "write"]
    /\ UNCHANGED <<impl, refs, negVars, pc, fail, cipherVars, sock, peer, inq, sent, rd, base,
                   connects>>

\* one write_some inside the composed async_write
PairWrite(d) ==
    /\ impl = "pair" /\ pump[d] = "write"
    /\ CanWrite(Dst(d))
    /\ \E n \in 1..Len(buf[d]) :
          /\ out' = [out EXCEPT ![Dst(d)] = @ \o Take(buf[d], n)]
          /\ buf' = [buf EXCEPT ![d] = Drop(@, n)]
          /\ pump' = [pump EXCEPT ![d] = IF n = Len(buf[d]) THEN "read" ELSE "write"]
    /\ UNCHANGED <<impl, refs, negVars, pc, fail, cipherVars, sock, peer, inq, sent, rd, base,
                   connects>>

pair(d) == PairRead(d) \/ PairFail(d) \/ PairWrite(d)

(***************************************************************************)
(* msocks::utility::socket_pair: the same loop in a coroutine of its own,  *)
(* with the caller's callback between the read and the write and the       *)
(* caller's handler posted at the end.                                     *)
(***************************************************************************)
\* the caller's callback, given the chunk just read: the direction's transform
before_read(chunk, d) == ProcessString(chunk, cur[d])

\* source.async_read_some succeeds; before_read; async_write starts
SocketPairRead(d) ==
    /\ impl = "socket_pair" /\ pump[d] = "read"
    /\ ~ReadFails(Src(d))
    /\ \E n_read \in 1..Min(Len(inq[Src(d)]), BufSize) :
          /\ rd' = [rd EXCEPT ![d] = @ \o Take(inq[Src(d)], n_read)]
          /\ buf' = [buf EXCEPT ![d] = before_read(Take(inq[Src(d)], n_read), d)]
          /\ cur' = [cur EXCEPT ![d] = @ + n_read]
          /\ inq' = [inq EXCEPT ![Src(d)] = Drop(@, n_read)]
    /\ used' = [used EXCEPT ![d] = @ + 1]
    /\ ops' = [ops EXCEPT ![d] = Append(@, Call("ProcessString", d))]
    /\ pump' = [pump EXCEPT ![d] = "write"]
    /\ UNCHANGED <<impl, refs, negVars, pc, fail, iv, frame, keyed, sock, peer, sent, out, base,
                   connects>>

\* if (ec) break, after the read or after the write; then post(ioc, bind(handler, ec))
SocketPairBreak(d) ==
    /\ impl = "socket_pair"
    /\ \/ pump[d] = "read" /\ ReadFails(Src(d))
       \/ pump[d] = "write" /\ ~CanWrite(Dst(d))
    /\ pump' = [pump EXCEPT ![d] = "returned"]
    /\ UNCHANGED <<impl, refs, negVars, pc, fail, cipherVars, sock, peer, inq, sent, out, rd, buf,
                   base, connects>>

\* one write_some inside the composed async_write
SocketPairWrite(d) ==
    /\ impl = "socket_pair" /\ pump[d] = "write"
    /\ CanWrite(Dst(d))
    /\ \E n \in 1..Len(buf[d]) :
          /\ out' = [out EXCEPT ![Dst(d)] = @ \o Take(buf[d], n)]
          /\ buf' = [buf EXCEPT ![d] = Drop(@, n)]
          /\ pump' = [pump EXCEPT ![d] = IF n = Len(buf[d]) THEN "read" ELSE "write"]
    /\ UNCHANGED <<impl, refs, negVars, pc, fail, cipherVars, sock, peer, inq, sent, rd, base,
                   connects>>

socket_pair(d) == SocketPairRead(d) \/ SocketPairBreak(d) \/ SocketPairWrite(d)

\* the caller closes both sockets when pair returns or its handler is called
PairCallerClose(d) ==
    /\ impl \in {"pair", "socket_pair"} /\ pump[d] = "returned"
    /\ ReleaseRef(d, [local |-> "closed", remote |-> "closed"])
    /\ pump' = [pump EXCEPT ![d] = "done"]
    /\ UNCHANGED <<impl, negVars, pc, fail, cipherVars, peer, inq, sent, out, rd, buf, base,
                   connects>>

(***************************************************************************)
(* The owner of the session: the coroutine that runs start holds the       *)
(* shared_ptr the session was created with and drops it once start has     *)
(* returned; the owner of a standalone negotiation drops the connection    *)
(* when its handler is given an error.                                     *)
(***************************************************************************)
CallerRelease ==
    /\ "caller" \in refs
    /\ \/ impl = "session" /\ pc \in {"aborted", "forwarding"}
       \/ impl = "utility" /\ pc = "posted" /\ fail.why # "none"
    /\ ReleaseRef("caller", sock)
    /\ UNCHANGED <<impl, negVars, pc, fail, cipherVars, peer, inq, sent, out, pumpVars,
                   connects>>

(***************************************************************************)
(* The environment: the client and the remote relay.                       *)
(***************************************************************************)
\* the i-th byte a peer sends while the session forwards
DataByte(s, i) == (IF s = "local" THEN 16 ELSE 32) + i

Socks == {"local", "remote"}

PeerSend(s) ==
    /\ pc = "forwarding" /\ sock[s] = "open" /\ peer[s] = "open"
    /\ Len(sent[s]) < MaxData
    /\ sent' = [sent EXCEPT ![s] = Append(@, DataByte(s, Len(@) + 1))]
    /\ inq' = [inq EXCEPT ![s] = Append(@, DataByte(s, Len(sent[s]) + 1))]
    /\ UNCHANGED <<impl, refs, negVars, pc, fail, cipherVars, sock, peer, out, pumpVars, connects>>

PeerShutdown(s) ==
    /\ pc = "forwarding" /\ sock[s] = "open" /\ peer[s] = "open"
    /\ peer' = [peer EXCEPT ![s] = "eof"]
    /\ UNCHANGED <<impl, refs, negVars, pc, fail, cipherVars, sock, inq, sent, out, pumpVars,
                   connects>>

PeerReset(s) ==
    /\ pc \notin {"aborted", "posted"} /\ sock[s] = "open" /\ peer[s] # "reset"
    /\ peer' = [peer EXCEPT ![s] = "reset"]
    /\ UNCHANGED <<impl, refs, negVars, pc, fail, cipherVars, sock, inq, sent, out, pumpVars,
                   connects>>

Environment == \E s \in Socks : PeerSend(s) \/ PeerShutdown(s) \/ PeerReset(s)

(***************************************************************************)
(* The specifications.                                                     *)
(***************************************************************************)
Next ==
    \/ start
    \/ do_forward_local_to_remote
    \/ do_forward_remote_to_local
    \/ utility_do_local_socks5
    \/ \E d \in Dirs : pair(d) \/ socket_pair(d) \/ PairCallerClose(d)
    \/ CallerRelease
    \/ Environment

Spec == Init /\ [][Next]_vars

\* every coroutine that can take a step is eventually resumed by the io_context
FairSpec ==
    /\ Spec
    /\ WF_vars(start)
    /\ WF_vars(do_forward_local_to_remote)
    /\ WF_vars(do_forward_remote_to_local)
    /\ WF_vars(utility_do_local_socks5)
    /\ \A d \in Dirs : WF_vars(pair(d)) /\ WF_vars(socket_pair(d)) /\ WF_vars(PairCallerClose(d))
    /\ WF_vars(CallerRelease)

(***************************************************************************)
(* Vocabulary of the properties.                                           *)
(***************************************************************************)
\* the bytes the pumps wrote to socket s
Spawned == \E d \in Dirs : pump[d] # "none"

Forwarded(s) == IF Spawned THEN Drop(out[s], base[s]) ELSE <<>>

\* neither peer has ended its stream or failed
Quiet == peer.local = "open" /\ peer.remote = "open"

\* the keystream position at which direction d began forwarding
StartCursor(d) == IF impl = "session" /\ d = "l2r" THEN Len(addr_port) ELSE 0

\* every byte peer Src(d) sent so far has been written, transformed, to Dst(d)
Delivered(d) ==
    /\ Len(Forwarded(Dst(d))) = Len(sent[Src(d)])
    /\ \A i \in 1..Len(sent[Src(d)]) :
          Forwarded(Dst(d))[i].b = sent[Src(d)][i] /\ Forwarded(Dst(d))[i].k >= 0

Exited(d) == pump[d] = "done"

BothClosed == sock.local = "closed" /\ sock.remote = "closed"

Ended == pc \in {"aborted", "posted"}

(***************************************************************************)
(* C1: while the session forwards, bytes a peer has sent are eventually    *)
(* written, transformed, to the other socket as long as both peers keep    *)
(* their streams open and error-free: delivery does not wait for the       *)
(* source's end-of-stream.  Stated for both directions.                    *)
(***************************************************************************)
C1_DeliveryWithoutEof ==
    \A d \in Dirs :
        (pc = "forwarding" /\ sent[Src(d)] # <<>>) ~> (Delivered(d) \/ ~Quiet)

(***************************************************************************)
(* C2: in each direction the bytes written so far to the sink are the      *)
(* cipher transform of a prefix of the bytes read so far from the source.  *)
(***************************************************************************)
C2_SinkIsTransformOfReadPrefix ==
    \A d \in Dirs :
        /\ Len(Forwarded(Dst(d))) <= Len(rd[d])
        /\ Forwarded(Dst(d)) = ProcessString(Take(rd[d], Len(Forwarded(Dst(d)))), StartCursor(d))

C2_Witness ==
    /\ Len(Forwarded("remote")) >= 2
    /\ Len(Forwarded("local")) >= 1
    /\ Len(rd.l2r) >= 2

(***************************************************************************)
(* C3: when a forwarding pump has exited, whatever the cause, both the     *)
(* local and the remote socket are closed.                                 *)
(***************************************************************************)
C3_ExitedPumpClosedBoth == \A d \in Dirs : Exited(d) => BothClosed

C3_Witness == impl = "session" /\ Exited("l2r") /\ ~Exited("r2l") /\ peer.remote = "open"

(***************************************************************************)
(* C4: once the session forwards, a closed socket or a terminated pump     *)
(* leads, under fair scheduling of the coroutines, to both sockets closed  *)
(* and both pumps exited.                                                  *)
(***************************************************************************)
C4_TeardownCompletes ==
    (pc = "forwarding" /\ (\E s \in Socks : sock[s] = "closed"
                           \/ \E d \in Dirs : pump[d] \in {"returned", "done"}))
        ~> (BothClosed /\ \A d \in Dirs : Exited(d))

C4_Witness ==
    /\ impl = "session" /\ Exited("r2l") /\ pump.l2r = "read"
    /\ peer.local = "open" /\ inq.local = <<>>

(***************************************************************************)
(* C5: a session that failed before forwarding has spawned no pump; and if *)
(* it failed in the greeting or the request, no connect was attempted.     *)
(***************************************************************************)
NegotiationSteps ==
    {"auth_head", "auth_methods", "auth_reply", "req_head", "req_v4", "req_v6",
     "req_dlen", "req_domain", "req_reply"}

C5_FailureSpawnsNothing ==
    (Ended /\ fail.why # "none") =>
        /\ \A d \in Dirs : pump[d] = "none"
        /\ fail.at \in NegotiationSteps => (connects = 0 /\ sock.remote = "init")

C5_Witness == impl = "session" /\ pc = "aborted" /\ fail.at = "hs_write" /\ out.remote # <<>>

(***************************************************************************)
(* The request as the client's script declares it.                         *)
(***************************************************************************)
Negotiates == impl \in {"session", "utility"}

OfferedMethods == SubSeq(script, 3, 2 + script[2])

ReqStart == 2 + script[2]

ReqCmd == script[ReqStart + 2]

ReqAtyp == script[ReqStart + 4]

DeclaredDomainLen == script[ReqStart + 5]

\* the stream position at which everything the request declares has been read
Need ==
    ReqStart + 4 + (IF ReqAtyp = ADDR_IPV4 THEN 6
                    ELSE IF ReqAtyp = ADDR_IPV6 THEN 18
                    ELSE 1 + DeclaredDomainLen + 2)

Truncated == cut < Need

RepliedAuth == IsPrefix(AuthReply, out.local)

RepliedSuccess ==
    \E i \in 1..(Len(out.local) - 9) : SubSeq(out.local, i, i + 9) = SuccessReply

AddrSteps == {"req_v4", "req_v6", "req_dlen", "req_domain"}

(***************************************************************************)
(* C6: a version-5 greeting that does not offer method 0x00 gets no reply  *)
(* [5,0], no connect to the remote relay and no byte written to it; the    *)
(* negotiation goes no further than the greeting.                          *)
(***************************************************************************)
C6_NoAuthNotOfferedAborts ==
    (Negotiates /\ script[1] = SOCKS5_VERSION /\ ~find_auth(OfferedMethods)) =>
        /\ ~RepliedAuth
        /\ lpos <= ReqStart
        /\ connects = 0
        /\ out.remote = <<>>

(***************************************************************************)
(* C7: a greeting whose version byte is not 5 gets no method-selection     *)
(* reply, the request is not read and no connect is attempted.             *)
(***************************************************************************)
C7_BadGreetingVersionAborts ==
    (Negotiates /\ script[1] # SOCKS5_VERSION) =>
        /\ ~RepliedAuth
        /\ lpos <= ReqStart
        /\ connects = 0

(***************************************************************************)
(* C8: a request whose command is not CONNECT or whose address type is not *)
(* 1, 3 or 4 is rejected: once its header is read the negotiation has      *)
(* ended, the success reply is never written, no connect is attempted and  *)
(* no pump is spawned.                                                     *)
(***************************************************************************)
BadRequest == ReqCmd # CONN_TCP \/ ReqAtyp \notin {ADDR_IPV4, ADDR_DOMAIN, ADDR_IPV6}

C8_BadRequestRejected ==
    (Negotiates /\ BadRequest) =>
        /\ ~RepliedSuccess
        /\ connects = 0
        /\ ~Spawned
        /\ lpos >= ReqStart + 4 => (Ended /\ fail.why # "none")

C8_Witness ==
    /\ impl = "session" /\ ReqCmd = CONN_TCP /\ pc = "aborted"
    /\ fail = [at |-> "req_head", why |-> "addrtype"]

(***************************************************************************)
(* C9: when the local stream ends or fails before every byte the request   *)
(* declares has been read, no address text and no address bytes are        *)
(* produced, the failure at the address read is a transport error, no      *)
(* success reply is written and no connect is attempted.  A domain that is *)
(* fully available, of length up to 255, is parsed whole.                  *)
(***************************************************************************)
DomainText ==
    SubSeq(script, ReqStart + 6, ReqStart + 5 + DeclaredDomainLen) \o <<58>>
        \o to_string(script[Need - 1] * 256 + script[Need])

C9_TruncatedRequestFails ==
    Negotiates =>
        /\ (Truncated /\ ~BadRequest) =>
              /\ addr_port = <<>>
              /\ Len(result) <= (IF ReqAtyp = ADDR_DOMAIN THEN 2 ELSE 1)
              /\ ~RepliedSuccess
              /\ connects = 0
              /\ Ended => fail.why # "none"
              /\ (Ended /\ fail.at \in AddrSteps) => fail.why = "transport"
        /\ (~BadRequest /\ ReqAtyp = ADDR_DOMAIN) =>
              /\ addr_port # <<>> => addr_port = DomainText
              /\ (pc = "posted" /\ fail.why = "none") =>
                     result = SubSeq(script, ReqStart + 4, Need)
              /\ (Ended /\ fail.at = "req_domain") => (Truncated \/ peer.local = "reset")

C9_Witness ==
    /\ impl = "session" /\ ReqAtyp = ADDR_DOMAIN /\ DeclaredDomainLen = MaxDomainLen
    /\ cut = Need - 1
    /\ pc = "aborted" /\ fail = [at |-> "req_domain", why |-> "transport"]

(***************************************************************************)
(* C10: in a session the handshake is built at most once and only after    *)
(* the connect succeeded; whatever has been written to the remote relay    *)
(* starts with the frame, every byte after the frame is a forwarded byte,  *)
(* and the pumps exist only once the whole frame has been written.         *)
(***************************************************************************)
C10_FrameOnceAndFirst ==
    impl = "session" =>
        /\ keyed.l2r <= 1
        /\ keyed.l2r = 1 => (connects = 1 /\ sock.remote # "init" /\ frame # <<>>)
        /\ out.remote # <<>> =>
              /\ keyed.l2r = 1
              /\ IsPrefix(out.remote, frame) \/ IsPrefix(frame, out.remote)
        /\ \A i \in (Len(frame) + 1)..Len(out.remote) : out.remote[i].k >= Len(addr_port)
        /\ Spawned =>
              /\ frame # <<>>
              /\ IsPrefix(frame, out.remote)
              /\ base.remote = Len(frame)

C10_Witness == impl = "session" /\ Spawned /\ out.remote = frame /\ rd.l2r # <<>>

(***************************************************************************)
(* C11: for every accepted request the 16-bit size field of the handshake  *)
(* frame is IvLen plus the length of the "host:port" text, without         *)
(* wrap-around; the frame is the size field, then exactly IvLen plain IV   *)
(* bytes, then exactly the text's bytes encrypted from keystream position  *)
(* zero.  The text of a domain or IPv4 request is the one the request      *)
(* declares; the size is 20 for 127.0.0.1:80.                              *)
(***************************************************************************)
\* the size field as the relay's decoder reads it, in the writer's byte order
SizeField(f) == f[1].b + 256 * f[2].b

\* the address and port bytes of the request, as the client serialized them
WireAddr == SubSeq(script, ReqStart + 5, Need - 2)

WirePort == script[Need - 1] * 256 + script[Need]

Dotted(b) ==
    to_string(b[1]) \o <<46>> \o to_string(b[2]) \o <<46>> \o to_string(b[3]) \o <<46>>
        \o to_string(b[4])

Ipv4Text == Dotted(WireAddr) \o <<58>> \o to_string(WirePort)

C11_FrameSizeExact ==
    (impl = "session" /\ frame # <<>>) =>
        /\ SizeField(frame) = IvLen + Len(addr_port)
        /\ Len(frame) = 2 + SizeField(frame)
        /\ SubSeq(frame, 1, 2 + IvLen) =
               PlainSeq(<<SizeField(frame) % 256, SizeField(frame) \div 256>> \o IvBytes(iv))
        /\ \A i \in 1..Len(addr_port) :
              frame[2 + IvLen + i] = [b |-> addr_port[i], k |-> i - 1]
        /\ ReqAtyp = ADDR_DOMAIN => addr_port = DomainText
        /\ ReqAtyp = ADDR_IPV4 => addr_port = Ipv4Text
        /\ Drop(script, ReqStart) = BaseRequest => SizeField(frame) = 20
        /\ pc = "forwarding" => IsPrefix(frame, out.remote)

C11_Witness ==
    /\ impl = "session" /\ pc = "forwarding" /\ out.remote = frame
    /\ ReqAtyp = ADDR_DOMAIN /\ DeclaredDomainLen = MaxDomainLen
    /\ Len(addr_port) = MaxDomainLen + 6
    /\ SizeField(frame) = 269

(***************************************************************************)
(* C12: the address the request parser produces from an accepted request   *)
(* is the (kind, bytes, port) the client serialized: the text of a session *)
(* names the host given by the address bytes in wire order (the 16 bytes   *)
(* of an IPv6 address not reversed) and the port decoded big-endian; the   *)
(* raw bytes handed over by the standalone negotiation are the kind byte   *)
(* followed by the serialized address and port.                            *)
(***************************************************************************)
Ipv6Text == v6_to_string(WireAddr) \o <<58>> \o to_string(WirePort)

\* the "host:port" text of the address the client serialized
WireText ==
    IF ReqAtyp = ADDR_IPV4 THEN Ipv4Text
    ELSE IF ReqAtyp = ADDR_IPV6 THEN Ipv6Text
    ELSE DomainText

C12_ParseReproducesAddress ==
    /\ (impl = "session" /\ addr_port # <<>>) => addr_port = WireText
    /\ (impl = "utility" /\ pc = "posted" /\ fail.why = "none") =>
           result = <<ReqAtyp>> \o SubSeq(script, ReqStart + 5, Need)

(***************************************************************************)
(* C13: keystream continuity.  While the pumps run, in each direction the  *)
(* cipher cursor moves only by the number of bytes of the chunk just read; *)
(* the bytes written to the sink, followed by the part of the current      *)
(* chunk a short write has left pending, are the one-shot transform of the *)
(* first bytes read, starting at the keystream position the direction      *)
(* began forwarding at (send: just after the encrypted address; receive:   *)
(* zero): every forwarded byte is transformed exactly once.                *)
(***************************************************************************)
\* bytes of direction d put through its cipher since forwarding began
Transformed(d) == cur[d] - StartCursor(d)

OneShot(d) == ProcessString(Take(rd[d], Transformed(d)), StartCursor(d))

C13_Continuous ==
    Spawned =>
        \A d \in Dirs :
            /\ Transformed(d) \in 0..Len(rd[d])
            /\ IsPrefix(Forwarded(Dst(d)), OneShot(d))
            /\ pump[d] = "write" => Forwarded(Dst(d)) \o buf[d] = OneShot(d)
            /\ pump[d] = "read" => Forwarded(Dst(d)) = OneShot(d)

C13_CursorStep ==
    Spawned =>
        \A d \in Dirs :
            cur'[d] = cur[d] \/ cur'[d] - cur[d] = Len(rd'[d]) - Len(rd[d])

C13_KeystreamContinuity == [](C13_Continuous) /\ [][C13_CursorStep]_vars

\* two chunks of one byte in one direction, a short write of a two-byte chunk in the other
C13_Witness ==
    /\ used.r2l = 2 /\ Len(Forwarded("local")) = 2
    /\ pump.l2r = "write" /\ Len(rd.l2r) = 2 /\ Len(buf.l2r) = 1
    /\ Len(Forwarded("remote")) = 1

(***************************************************************************)
(* C14: on each cipher of a session (encrypt and decrypt) SetKeyWithIV is  *)
(* called at most once in the session's lifetime, it is the first call     *)
(* made on that cipher, so no transform precedes it, and a session that    *)
(* has reached the handshake has made exactly one such call on each.       *)
(***************************************************************************)
Keyings(d) == Cardinality({i \in DOMAIN ops[d] : ops[d][i].op = "SetKeyWithIV"})

Handshaken == pc \in {"hs_write", "forwarding"} \/ fail.at = "hs_write"

C14_KeyedOnceBeforeUse ==
    impl = "session" =>
        \A d \in Dirs :
            /\ Keyings(d) <= 1
            /\ Keyings(d) = keyed[d]
            /\ ops[d] # <<>> => ops[d][1].op = "SetKeyWithIV"
            /\ Handshaken <=> Keyings(d) = 1
            /\ Keyings(d) = 1 => iv # 0

C14_Witness ==
    /\ impl = "session" /\ Exited("l2r") /\ Exited("r2l")
    /\ Len(ops.l2r) = 2 /\ ops.l2r[2].op = "ProcessString"
    /\ Len(ops.r2l) = 1

(***************************************************************************)
(* C15: once the client's bytes read so far contain a protocol error (a    *)
(* greeting of another version or without method 0x00, a request of        *)
(* another version, command or address type), the session has ended with a *)
(* failure, no connect to the remote relay was attempted and nothing was   *)
(* written to it, and once its owner has let go of it no socket is open.   *)
(***************************************************************************)
GreetingError == script[1] # SOCKS5_VERSION \/ ~find_auth(OfferedMethods)

RequestError == script[ReqStart + 1] # SOCKS5_VERSION \/ BadRequest

\* the bytes that carry the protocol error have been read and examined
ProtocolErrorSeen ==
    \/ GreetingError /\ lpos >= ReqStart /\ pc \notin {"auth_head", "auth_methods"}
    \/ RequestError /\ lpos >= ReqStart + 4

NoSocketOpen == \A s \in DOMAIN sock : sock[s] # "open"

C15_ProtocolErrorEndsSession ==
    (Negotiates /\ ProtocolErrorSeen) =>
        /\ Ended /\ fail.why # "none"
        /\ connects = 0 /\ out.remote = <<>>
        /\ "caller" \notin refs => NoSocketOpen

(***************************************************************************)
(* C16: the session object is released only after both pumps have exited:  *)
(* a pump that has been spawned and has not exited holds the session, so   *)
(* while either pump runs the session, its sockets and its ciphers exist,  *)
(* and a session with no holder left has no pump running.                  *)
(***************************************************************************)
Released == refs = {}

Running(d) == pump[d] \notin {"none", "done"}

C16_ReleasedAfterBothPumps ==
    /\ \A d \in Dirs : Running(d) => d \in refs
    /\ Released => \A d \in Dirs : ~Running(d)
    /\ (Released /\ Spawned) => (BothClosed /\ \A d \in Dirs : Exited(d))

\* the owner has let go and one pump has exited while the other still holds the session
C16_Witness ==
    /\ impl = "session" /\ refs = {"r2l"}
    /\ Exited("l2r") /\ Running("r2l")

(***************************************************************************)
(* C17: when a pump acts while the read from its source fails or signals   *)
(* end-of-stream, it stops without a transform and without a write; when   *)
(* it acts while the write to its sink fails, it stops; and a pump that    *)
(* has stopped never reads, transforms or writes again.                    *)
(***************************************************************************)
Stopped(p) == p \in {"returned", "done"}

\* the pump of direction d takes this step
Acts(d) == pump'[d] # pump[d] \/ rd'[d] # rd[d] \/ buf'[d] # buf[d]

\* this step reads, transforms and writes nothing in direction d
Idle(d) ==
    /\ rd'[d] = rd[d]
    /\ cur'[d] = cur[d] /\ ops'[d] = ops[d]
    /\ out'[Dst(d)] = out[Dst(d)]

C17_Step ==
    \A d \in Dirs :
        /\ (pump[d] = "read" /\ ReadFails(Src(d)) /\ Acts(d)) => (Stopped(pump'[d]) /\ Idle(d))
        /\ (pump[d] = "write" /\ ~CanWrite(Dst(d)) /\ Acts(d)) => (Stopped(pump'[d]) /\ Idle(d))
        /\ Stopped(pump[d]) => (Stopped(pump'[d]) /\ Idle(d) /\ buf'[d] = buf[d])

C17_ErrorStopsPump == [][C17_Step]_vars

\* one pump stopped at end-of-stream, the other at a failed write with transformed
\* bytes left unwritten
C17_Witness ==
    /\ impl = "pair"
    /\ Exited("r2l") /\ peer.remote = "eof" /\ rd.r2l # <<>>
    /\ pump.l2r = "returned" /\ buf.l2r # <<>>

(***************************************************************************)
(* C18: each cipher is mutated only by its own direction's pump and,       *)
(* before the pumps exist, by the task that sets the session up: the send  *)
(* cipher is keyed and advanced over the address by the handshake, the     *)
(* receive cipher is only keyed by it; once the pumps exist every call on  *)
(* a cipher is made by the pump of its direction, in a step of that pump,  *)
(* and no step touches both ciphers.                                       *)
(***************************************************************************)
Setup == {"start", "caller"}

C18_CallsByOwner ==
    \A d \in Dirs :
        \A i \in DOMAIN ops[d] :
            /\ ops[d][i].by \in Setup \cup {d}
            /\ ops[d][i].by = d => (Spawned /\ ops[d][i].op = "ProcessString")
            /\ ops[d][i].by \in Setup => \A j \in 1..(i - 1) : ops[d][j].by \in Setup
            /\ (ops[d][i].by \in Setup /\ d = "r2l") => ops[d][i].op = "SetKeyWithIV"

C18_Step ==
    Spawned =>
        \A d \in Dirs :
            ops'[d] # ops[d] =>
                /\ Acts(d)
                /\ Len(ops'[d]) = Len(ops[d]) + 1
                /\ ops'[d][Len(ops'[d])].by = d
                /\ \A e \in Dirs \ {d} : ops'[e] = ops[e] /\ cur'[e] = cur[e]

C18_CipherOwnedByPump == [](C18_CallsByOwner) /\ [][C18_Step]_vars

C18_Witness ==
    /\ Len(ops.l2r) = 3 /\ ops.l2r[2].by = "l2r" /\ ops.l2r[3].by = "l2r"
    /\ Len(ops.r2l) = 2 /\ ops.r2l[2].by = "r2l"
    /\ \A d \in Dirs : Running(d)

(***************************************************************************)
(* C19: a session passes through Accepted, Authenticating,                 *)
(* RequestingTarget, ConnectingRemote, Handshaking, Forwarding and Closed  *)
(* in that order, one at a time, except that a failure before Forwarding   *)
(* takes it to Closed directly; it never goes back, and it leaves          *)
(* Forwarding only in a step in which a pump terminates.                   *)
(***************************************************************************)
PhaseOrder ==
    <<"Accepted", "Authenticating", "RequestingTarget", "ConnectingRemote", "Handshaking",
      "Forwarding", "Closed">>

Rank(name) == CHOOSE i \in DOMAIN PhaseOrder : PhaseOrder[i] = name

\* the state of the session state machine
PhaseName ==
    IF pc = "auth_head" THEN "Accepted"
    ELSE IF pc \in {"auth_methods", "auth_reply"} THEN "Authenticating"
    ELSE IF pc \in {"req_head", "req_v4", "req_v6", "req_dlen", "req_domain", "req_reply"}
         THEN "RequestingTarget"
    ELSE IF pc = "connect" THEN "ConnectingRemote"
    ELSE IF pc = "hs_write" THEN "Handshaking"
    ELSE IF pc = "forwarding" /\ (\E s \in Socks : sock[s] = "open") THEN "Forwarding"
    ELSE "Closed"

Phase == Rank(PhaseName)

C19_Step ==
    impl = "session" =>
        /\ Phase' # Phase =>
              \/ Phase' = Phase + 1
              \/ /\ Phase < Rank("Forwarding") /\ PhaseName' = "Closed"
                 /\ pc' = "aborted" /\ ~Spawned'
        /\ (PhaseName = "Forwarding" /\ PhaseName' = "Closed") =>
              \E d \in Dirs : Running(d) /\ Exited(d)'
        /\ PhaseName = "Forwarding" => (Spawned /\ IsPrefix(frame, out.remote))

C19_PhasesInOrder == [][C19_Step]_vars

C19_Witness ==
    /\ impl = "session" /\ pc = "forwarding" /\ PhaseName = "Closed"
    /\ Exited("r2l") /\ Running("l2r") /\ "caller" \in refs

(***************************************************************************)
(* C20: the success reply [5,0,0,1,0,0,0,0,0,0] is written to the client   *)
(* right after the request is parsed and before the connect to the remote  *)
(* relay is attempted, so a session that fails in the connect or in the    *)
(* handshake has already sent it; nothing but the two fixed replies is     *)
(* written to the client before forwarding, and after them only forwarded  *)
(* bytes: the reply is not followed by a failure reply.                    *)
(***************************************************************************)
Replies == AuthReply \o SuccessReply

C20_ReplyBeforeConnect ==
    Negotiates =>
        /\ (connects > 0 \/ pc \in {"connect", "hs_write", "forwarding"}
                \/ fail.at \in {"connect", "hs_write"}) => IsPrefix(Replies, out.local)
        /\ (impl = "session" /\ addr_port # <<>> /\ ~IsPrefix(Replies, out.local)) =>
               (pc = "req_reply" \/ fail.at = "req_reply")
        /\ (impl = "utility" /\ pc = "posted" /\ fail.why = "none") => out.local = Replies
        /\ ~Spawned => out.local \in {<<>>, AuthReply, Replies}
        /\ Spawned =>
               \A i \in (Len(Replies) + 1)..Len(out.local) : out.local[i].k >= 0

C20_Witness ==
    /\ impl = "session" /\ pc = "aborted" /\ fail.at = "connect"
    /\ out.local = Replies /\ connects = 1 /\ NoSocketOpen

=============================================================================
